---- MODULE Spec2Model ----
(***************************************************************************)
(* A model of the Flora optimizer repository:                              *)
(*   - scale_by_flora (src/optimizers/optax/flora.py): the low-rank        *)
(*     momentum estimator with its init / update_state / query / update_fn *)
(*   - the flora and adafactor chain assemblers                            *)
(*   - data_loader (src/data/utils.py)                                     *)
(* Tensors are exact: a shape and a row-major list of rationals, so that   *)
(* every matrix product of the code is computed and every shape mismatch   *)
(* shows.  PRNG keys are terms (no two derivations collide).               *)
(***************************************************************************)
EXTENDS Integers, Sequences, FiniteSets, TLC

VARIABLES
    cfg,        \* arguments of scale_by_flora(...)
    params,     \* the parameter tree: a sequence of leaf shapes
    fstate,     \* ScaleByFloraState, or NoState before init_fn
    updates,    \* what the last update_fn call emitted (a sequence of tensors)
    grads,      \* the gradients given to the last update_fn call
    path,       \* the branch of jax.lax.cond the last update_state ran
    chosen,     \* the variant and sides init_fn chose per leaf
    fout,       \* outcome of the last estimator call: none / ok / error
    asm,        \* arguments of the chain assembler (flora(...) / adafactor(...))
    cstate,     \* the chain state tuple the caller holds
    cpassed,    \* the state tuple given to the last chain update
    cout,       \* outcome of the last chain call
    ran,        \* number of stage updates the last chain update ran
    ld,         \* arguments of data_loader(...)
    lpc,        \* position of the data_loader generator
    batch_idx,  \* the generator's list of index batches still to yield
    yielded,    \* the batches yielded so far
    pshape,     \* the tensor shape given to should_factorize
    pcfg,       \* factored / min_dim_size_to_factor given to should_factorize
    presult     \* what should_factorize returned

floraVars  == <<cfg, params, fstate, updates, grads, path, chosen, fout>>
chainVars  == <<asm, cstate, cpassed, cout, ran>>
loaderVars == <<ld, lpc, batch_idx, yielded>>
policyVars == <<pshape, pcfg, presult>>
vars == <<cfg, params, fstate, updates, grads, path, chosen, fout,
          asm, cstate, cpassed, cout, ran,
          ld, lpc, batch_idx, yielded,
          pshape, pcfg, presult>>

----------------------------------------------------------------------------
(* Bounds of the model *)

\* number of update_fn calls explored after init_fn
MaxSteps == 4
\* largest refresh period kappa explored
MaxKappa == 3
\* largest projection rank tau explored
MaxTau == 2
\* largest dataset length given to data_loader
MaxN == 10
\* largest batch size given to data_loader
MaxB == 4
\* number of chain update calls explored
MaxCalls == 2

----------------------------------------------------------------------------
(* Exact arithmetic: a rational is <<numerator, denominator>>, denominator *)
(* positive, in lowest terms.                                              *)

Abs(x) == IF x < 0 THEN -x ELSE x

Min2(a, b) == IF a < b THEN a ELSE b

RECURSIVE GCD(_, _)
GCD(a, b) == IF b = 0 THEN a ELSE GCD(b, a % b)

Norm(n, d) ==
    LET g == GCD(Abs(n), d)
    IN  <<n \div g, d \div g>>

RAdd(x, y) == Norm(x[1] * y[2] + y[1] * x[2], x[2] * y[2])
RMul(x, y) == Norm(x[1] * y[1], x[2] * y[2])
RInt(n) == <<n, 1>>

RECURSIVE SeqMax(_)
SeqMax(s) ==
    IF Len(s) = 1 THEN s[1]
    ELSE LET m == SeqMax(Tail(s)) IN IF s[1] > m THEN s[1] ELSE m

RECURSIVE SeqMin(_)
SeqMin(s) ==
    IF Len(s) = 1 THEN s[1]
    ELSE LET m == SeqMin(Tail(s)) IN IF s[1] < m THEN s[1] ELSE m

RECURSIVE Prod(_)
Prod(s) == IF s = <<>> THEN 1 ELSE s[1] * Prod(Tail(s))

----------------------------------------------------------------------------
(* Tensors: [shape, val], val row-major.  ErrT is the outcome of an        *)
(* operation whose operand shapes do not fit (the array library raises).   *)

ErrT == [shape |-> <<0 - 1>>, val |-> <<>>]

IsErr(t) == t.shape = ErrT.shape

Zeros(shape) == [shape |-> shape, val |-> [k \in 1..Prod(shape) |-> RInt(0)]]

\* A.T of a 2-D array
Transpose(A) ==
    IF IsErr(A) \/ Len(A.shape) # 2 THEN ErrT
    ELSE LET r == A.shape[1]
             c == A.shape[2]
         IN  [shape |-> <<c, r>>,
              val |-> [k \in 1..(r * c) |->
                         LET i == ((k - 1) \div r) + 1
                             j == ((k - 1) % r) + 1
                         IN  A.val[(j - 1) * c + i]]]

RECURSIVE DotSum(_, _, _, _, _)
DotSum(A, B, i, j, l) ==
    IF l = 0 THEN RInt(0)
    ELSE RAdd(DotSum(A, B, i, j, l - 1),
              RMul(A.val[(i - 1) * A.shape[2] + l],
                   B.val[(l - 1) * B.shape[2] + j]))

\* A @ B of two 2-D arrays
MatMul(A, B) ==
    IF IsErr(A) \/ IsErr(B) \/ Len(A.shape) # 2 \/ Len(B.shape) # 2 THEN ErrT
    ELSE IF A.shape[2] # B.shape[1] THEN ErrT
    ELSE LET r == A.shape[1]
             c == B.shape[2]
         IN  [shape |-> <<r, c>>,
              val |-> [k \in 1..(r * c) |->
                         DotSum(A, B, ((k - 1) \div c) + 1, ((k - 1) % c) + 1,
                                A.shape[2])]]

\* elementwise A + B (operands of one shape)
TAdd(A, B) ==
    IF IsErr(A) \/ IsErr(B) \/ A.shape # B.shape THEN ErrT
    ELSE [shape |-> A.shape,
          val |-> [k \in 1..Len(A.val) |-> RAdd(A.val[k], B.val[k])]]

\* scalar * A
TScale(r, A) ==
    IF IsErr(A) THEN ErrT
    ELSE [shape |-> A.shape, val |-> [k \in 1..Len(A.val) |-> RMul(r, A.val[k])]]

----------------------------------------------------------------------------
(* PRNG keys.  A key is the sequence of derivation steps that led to it    *)
(* from PRNGKey(seed); each step is <<tag, index, fan-out>>.  Two keys are *)
(* equal exactly when they were derived the same way.                      *)

PRNGKey(seed) == << <<"seed", seed, 0>> >>

\* jax.random.split(key, n): n sub-keys
Split(key, n) == [i \in 1..n |-> Append(key, <<"split", i - 1, n>>)]

\* next_rng_key(key) of optimizers/optax/utils.py: the successor key
next_rng_key(key) == Append(key, <<"next", 0, 0>>)

\* random_split_like_tree(key, tree) of optimizers/optax/utils.py:
\* one sub-key per leaf of the tree
random_split_like_tree(key, tree) == Split(key, Len(tree))

TagNum(tag) == CASE tag = "seed" -> 1 [] tag = "split" -> 2 [] OTHER -> 4

RECURSIVE KeyHash(_)
KeyHash(key) ==
    IF key = <<>> THEN 0
    ELSE LET e == key[Len(key)]
         IN  (KeyHash(SubSeq(key, 1, Len(key) - 1)) * 3 + TagNum(e[1]) + e[2]) % 7

\* random_generate(key, shape, dtype): a tensor that is a function of the
\* key and the shape alone.  The deviates normal(key)/sqrt(min(shape)) are
\* drawn from the sample space {-1, 1, 3}; the tensor carries the key that
\* generated it.
random_generate(key, shape) ==
    [shape |-> shape,
     val   |-> [k \in 1..Prod(shape) |-> RInt(2 * ((KeyHash(key) + k * k) % 3) - 1)],
     key   |-> key]

----------------------------------------------------------------------------
(* scale_by_flora *)

\* beta (b1): the decay rate, 1/2 here
Beta == <<1, 2>>
OneMinusBeta == RAdd(RInt(1), RMul(RInt(0 - 1), Beta))

\* Optional fields (None / a value) are <<>> / <<value>>
None == <<>>
Some(x) == <<x>>
Get(o) == o[1]

NoState == [count |-> 0 - 1, decomposition |-> <<>>, rng |-> <<>>]

\* should_factorize with the aspect-ratio test made strict (>= for >)
should_factorize_StrictRatio(factored, min_dim_size_to_factor, shape) ==
    IF factored = FALSE THEN FALSE
    ELSE IF Len(shape) # 2 THEN FALSE
    ELSE IF SeqMax(shape) >= SeqMin(shape) * 16 THEN FALSE
    ELSE SeqMin(shape) >= min_dim_size_to_factor

should_factorize(factored, min_dim_size_to_factor, shape) ==
    IF factored = FALSE THEN FALSE
    ELSE IF Len(shape) # 2 THEN FALSE
    ELSE IF SeqMax(shape) > SeqMin(shape) * 16 THEN FALSE
    ELSE SeqMin(shape) >= min_dim_size_to_factor

ShouldFactorize(c, shape) ==
    should_factorize(c.factored, c.min_dim_size_to_factor, shape)

\* ResolveSide compressing the right side of square tensors too (>= for >)
ResolveSide_SquareRight(side, shape) ==
    IF side = "auto"
    THEN (IF shape[2] >= shape[1] THEN "right" ELSE "left")
    ELSE side

\* ResolveSide taking every side it does not know for "left"
ResolveSide_FallbackLeft(side, shape) ==
    IF side = "auto"
    THEN (IF shape[2] > shape[1] THEN "right" ELSE "left")
    ELSE IF side = "right" THEN "right" ELSE "left"

\* _side: ind, outd = shape; "right" if outd > ind else "left" under "auto"
ResolveSide(side, shape) ==
    IF side = "auto"
    THEN (IF shape[2] > shape[1] THEN "right" ELSE "left")
    ELSE side

\* the guards `_side != "right"` and `_side != "left"`
HasLeft(_side) == _side # "right"
HasRight(_side) == _side # "left"

NaiveDecomposition(data) == [kind |-> "naive", data |-> data]

TwoSideRandomDecomposition(l_data, l_proj, r_data, r_proj) ==
    [kind |-> "factored", l_data |-> l_data, l_proj |-> l_proj,
     r_data |-> r_data, r_proj |-> r_proj]

\* a stored projection as a tensor: regenerated from the seed under rng_only
Materialize(c, proj, shape) ==
    IF c.rng_only THEN random_generate(proj, shape) ELSE proj

_init_layer(c, shape, key) ==
    IF ShouldFactorize(c, shape)
    THEN LET ind   == shape[1]
             outd  == shape[2]
             l_key == Split(key, 2)[1]
             r_key == Split(key, 2)[2]
             otau  == c.tau
             itau  == c.tau
             _side == ResolveSide(c.side, shape)
         IN  TwoSideRandomDecomposition(
                 IF HasLeft(_side) THEN Some(Zeros(<<itau, ind>>)) ELSE None,
                 IF HasLeft(_side)
                 THEN Some(IF c.rng_only THEN l_key
                           ELSE random_generate(l_key, <<outd, itau>>))
                 ELSE None,
                 IF HasRight(_side) THEN Some(Zeros(<<outd, otau>>)) ELSE None,
                 IF HasRight(_side)
                 THEN Some(IF c.rng_only THEN r_key
                           ELSE random_generate(r_key, <<otau, ind>>))
                 ELSE None)
    ELSE NaiveDecomposition(Zeros(shape))

init_fn(c, ps) ==
    LET rng          == PRNGKey(c.seed)
        prngkey_tree == random_split_like_tree(rng, ps)
    IN  [count |-> 0,
         decomposition |-> [i \in 1..Len(ps) |-> _init_layer(c, ps[i], prngkey_tree[i])],
         rng |-> rng]

\* beta * a + (1 - beta) * b
Ema(a, b) == TAdd(TScale(Beta, a), TScale(OneMinusBeta, b))

\* _naive_fn adding the raw gradient (the (1 - beta) factor dropped)
_naive_fn_RawGrad(grad, dcomp) ==
    NaiveDecomposition(TAdd(TScale(Beta, dcomp.data), grad))

_naive_fn(grad, dcomp) == NaiveDecomposition(Ema(dcomp.data, grad))

_full_layer_fn(c, grad, dcomp, key) ==
    IF ~ShouldFactorize(c, grad.shape) THEN _naive_fn(grad, dcomp)
    ELSE LET ind   == grad.shape[1]
             outd  == grad.shape[2]
             otau  == c.tau
             itau  == c.tau
             _side == ResolveSide(c.side, grad.shape)
             l_key == Split(key, 2)[1]
             r_key == Split(key, 2)[2]
             \* left side
             l_proj     == Materialize(c, Get(dcomp.l_proj), <<outd, c.tau>>)
             l_data     == Get(dcomp.l_data)
             new_l_key  == IF c.rng_only THEN next_rng_key(Get(dcomp.l_proj)) ELSE l_key
             new_l_proj == random_generate(new_l_key, <<outd, itau>>)
             his_l      == MatMul(MatMul(Transpose(new_l_proj), l_proj), l_data)
             new_l_data == Ema(his_l, MatMul(Transpose(new_l_proj), Transpose(grad)))
             \* right side
             r_proj     == Materialize(c, Get(dcomp.r_proj), <<c.tau, ind>>)
             r_data     == Get(dcomp.r_data)
             new_r_key  == IF c.rng_only THEN next_rng_key(Get(dcomp.r_proj)) ELSE r_key
             new_r_proj == random_generate(new_r_key, <<otau, ind>>)
             his_r      == MatMul(MatMul(r_data, r_proj), Transpose(new_r_proj))
             new_r_data == Ema(his_r, MatMul(Transpose(grad), Transpose(new_r_proj)))
         IN  TwoSideRandomDecomposition(
                 IF HasLeft(_side) THEN Some(new_l_data) ELSE None,
                 IF HasLeft(_side)
                 THEN Some(IF c.rng_only THEN new_l_key ELSE new_l_proj)
                 ELSE None,
                 IF HasRight(_side) THEN Some(new_r_data) ELSE None,
                 IF HasRight(_side)
                 THEN Some(IF c.rng_only THEN new_r_key ELSE new_r_proj)
                 ELSE None)

_partial_layer_fn(c, grad, dcomp, key) ==
    IF ~ShouldFactorize(c, grad.shape) THEN _naive_fn(grad, dcomp)
    ELSE LET ind   == grad.shape[1]
             outd  == grad.shape[2]
             _side == ResolveSide(c.side, grad.shape)
             l_data == Get(dcomp.l_data)
             l_proj == Materialize(c, Get(dcomp.l_proj), <<outd, c.tau>>)
             r_data == Get(dcomp.r_data)
             r_proj == Materialize(c, Get(dcomp.r_proj), <<c.tau, ind>>)
         IN  TwoSideRandomDecomposition(
                 IF HasLeft(_side)
                 THEN Some(Ema(l_data, MatMul(Transpose(l_proj), Transpose(grad))))
                 ELSE None,
                 IF HasLeft(_side) THEN Some(Get(dcomp.l_proj)) ELSE None,
                 IF HasRight(_side)
                 THEN Some(Ema(r_data, MatMul(Transpose(grad), Transpose(r_proj))))
                 ELSE None,
                 IF HasRight(_side) THEN Some(Get(dcomp.r_proj)) ELSE None)

\* the predicate off by one: jnp.mod(state.count + 1, kappa) == 0
CondBranch_OffByOne(c, state) ==
    IF (state.count + 1) % c.kappa = 0 THEN "full" ELSE "partial"

\* the predicate of jax.lax.cond: jnp.mod(state.count, kappa) == 0
CondBranch(c, state) ==
    IF state.count % c.kappa = 0 THEN "full" ELSE "partial"

update_state(c, g, state) ==
    LET prngkey_tree == random_split_like_tree(state.rng, g)
        rng          == next_rng_key(state.rng)
        decomposition ==
            IF CondBranch(c, state) = "full"
            THEN [i \in 1..Len(g) |->
                    _full_layer_fn(c, g[i], state.decomposition[i], prngkey_tree[i])]
            ELSE [i \in 1..Len(g) |->
                    _partial_layer_fn(c, g[i], state.decomposition[i], prngkey_tree[i])]
    IN  [count |-> state.count + 1, decomposition |-> decomposition, rng |-> rng]

\* _layer_fn without the transposition of the reconstructed product
_layer_fn_NoTranspose(c, g, dcomp) ==
    IF ~ShouldFactorize(c, g.shape) THEN dcomp.data
    ELSE LET ind   == g.shape[1]
             outd  == g.shape[2]
             _side == ResolveSide(c.side, g.shape)
             l_proj == Materialize(c, Get(dcomp.l_proj), <<outd, c.tau>>)
             l_data == Get(dcomp.l_data)
             r_proj == Materialize(c, Get(dcomp.r_proj), <<c.tau, ind>>)
             r_data == Get(dcomp.r_data)
         IN  IF _side = "left" THEN MatMul(l_proj, l_data)
             ELSE IF _side = "right" THEN MatMul(r_data, r_proj)
             ELSE TScale(<<1, 2>>, TAdd(MatMul(r_data, r_proj), MatMul(l_proj, l_data)))

_layer_fn(c, g, dcomp) ==
    IF ~ShouldFactorize(c, g.shape) THEN dcomp.data
    ELSE LET ind   == g.shape[1]
             outd  == g.shape[2]
             _side == ResolveSide(c.side, g.shape)
             l_proj == Materialize(c, Get(dcomp.l_proj), <<outd, c.tau>>)
             l_data == Get(dcomp.l_data)
             r_proj == Materialize(c, Get(dcomp.r_proj), <<c.tau, ind>>)
             r_data == Get(dcomp.r_data)
         IN  IF _side = "left" THEN Transpose(MatMul(l_proj, l_data))
             ELSE IF _side = "right" THEN Transpose(MatMul(r_data, r_proj))
             ELSE TScale(<<1, 2>>,
                         Transpose(TAdd(MatMul(r_data, r_proj), MatMul(l_proj, l_data))))

query(c, g, state) ==
    [i \in 1..Len(g) |-> _layer_fn(c, g[i], state.decomposition[i])]

\* the updates computed from the state this same call produces
EmittedUpdates_AfterUpdate(c, g, state) ==
    LET m == query(c, g, update_state(c, g, state))
    IN  [i \in 1..Len(g) |-> TAdd(TScale(Beta, m[i]), TScale(OneMinusBeta, g[i]))]

\* the updates update_fn emits: m * beta + g * (1 - beta) over query(grads, state)
EmittedUpdates(c, g, state) ==
    LET m == query(c, g, state)
    IN  [i \in 1..Len(g) |-> TAdd(TScale(Beta, m[i]), TScale(OneMinusBeta, g[i]))]

\* update_fn(grads, state) = (updates, new_state)
update_fn(c, g, state) ==
    [updates |-> EmittedUpdates(c, g, state), new_state |-> update_state(c, g, state)]

----------------------------------------------------------------------------
(* The estimator as a state machine: construct, init_fn, update_fn ...     *)

\* projection ranks explored; 0 stands for tau = None (flora() then passes
\* factored = False)
Taus == 0..MaxTau
Kappas == 1..MaxKappa
MinDims == {2}
Sides == {"auto", "left", "right", "both"}
Seeds == {0}

Configs ==
    {c \in [factored : BOOLEAN, tau : Taus, kappa : Kappas, rng_only : BOOLEAN,
            min_dim_size_to_factor : MinDims, side : Sides, seed : Seeds] :
        c.factored = (c.tau # 0)}

\* parameter trees: one leaf too small to factor, a square one, a wide one,
\* and a tree of a tall leaf and a rank-1 leaf
Shapes == {<<1, 2>>, <<2, 2>>, <<2, 3>>}
Trees == {<<s>> : s \in Shapes} \cup {<< <<3, 2>>, <<3>> >>}

GradSeeds == {0, 1}

\* a gradient of the given shape: entries gs * k - 2 in row-major order
GradTensor(shape, gs) ==
    [shape |-> shape, val |-> [k \in 1..Prod(shape) |-> RInt(gs * k - 2)]]

GradTree(ps, gs) == [i \in 1..Len(ps) |-> GradTensor(ps[i], gs)]

\* variant and populated sides of every leaf
Tags(state) ==
    [i \in 1..Len(state.decomposition) |->
        LET d == state.decomposition[i]
        IN  IF d.kind = "naive" THEN [kind |-> "naive", l |-> FALSE, r |-> FALSE]
            ELSE [kind |-> "factored",
                  l |-> d.l_data # None /\ d.l_proj # None,
                  r |-> d.r_data # None /\ d.r_proj # None]]

DcompErr(d) ==
    IF d.kind = "naive" THEN IsErr(d.data)
    ELSE \/ (d.l_data # None /\ IsErr(Get(d.l_data)))
         \/ (d.r_data # None /\ IsErr(Get(d.r_data)))

\* an operation of the call raised (operand shapes that do not fit)
Raised(r) ==
    \/ \E i \in 1..Len(r.updates) : IsErr(r.updates[i])
    \/ \E i \in 1..Len(r.new_state.decomposition) : DcompErr(r.new_state.decomposition[i])

FloraInit ==
    /\ cfg \in Configs
    /\ params \in Trees
    /\ fstate = NoState
    /\ updates = <<>>
    /\ grads = <<>>
    /\ path = "none"
    /\ chosen = <<>>
    /\ fout = "none"

InitFn ==
    /\ fstate = NoState
    /\ fstate' = init_fn(cfg, params)
    /\ chosen' = Tags(fstate')
    /\ fout' = "ok"
    /\ UNCHANGED <<cfg, params, updates, grads, path>>

UpdateFn ==
    /\ fstate # NoState
    /\ fstate.count < MaxSteps
    /\ \E gs \in GradSeeds :
        LET g == GradTree(params, gs)
            r == update_fn(cfg, g, fstate)
        IN  /\ grads' = g
            /\ IF Raised(r)
               THEN /\ fout' = "error"
                    /\ UNCHANGED <<fstate, updates, path>>
               ELSE /\ fout' = "ok"
                    /\ fstate' = r.new_state
                    /\ updates' = r.updates
                    /\ path' = CondBranch(cfg, fstate)
    /\ UNCHANGED <<cfg, params, chosen>>

ChainIdle == asm = <<>> /\ cstate = <<>> /\ cpassed = <<>> /\ cout = "none" /\ ran = 0
LoaderIdle == ld = <<>> /\ lpc = "idle" /\ batch_idx = <<>> /\ yielded = <<>>
PolicyIdle == pshape = <<>> /\ pcfg = <<>> /\ presult = None

Init == FloraInit /\ ChainIdle /\ LoaderIdle /\ PolicyIdle

Next ==
    \/ InitFn /\ UNCHANGED <<chainVars, loaderVars, policyVars>>
    \/ UpdateFn /\ UNCHANGED <<chainVars, loaderVars, policyVars>>

Spec == Init /\ [][Next]_vars

----------------------------------------------------------------------------
(* Properties of the estimator *)

\* a successful update_fn call has just advanced the state
Stepped == fstate.count >= 0 /\ fstate'.count = fstate.count + 1

\* the stored projections (tensor, or seed under rng_only) of every leaf
Projs(state) ==
    [i \in 1..Len(state.decomposition) |->
        LET d == state.decomposition[i]
        IN  IF d.kind = "naive" THEN <<None, None>> ELSE <<d.l_proj, d.r_proj>>]

Factored(i) == chosen[i].kind = "factored"

\* C1: the update at step s runs the full-refresh path exactly when
\* s mod kappa = 0 and the partial path at every other step, and a partial
\* step leaves every stored projection (tensor or seed) as it was.
C1_RefreshCadence ==
    [][Stepped =>
         /\ (path' = "full") = (fstate.count % cfg.kappa = 0)
         /\ (path' = "partial") = (fstate.count % cfg.kappa # 0)
         /\ (fstate.count % cfg.kappa # 0 => Projs(fstate') = Projs(fstate))
         /\ (Projs(fstate') # Projs(fstate) => fstate.count % cfg.kappa = 0)]_vars

\* steps 0 (full), 1, 2 (partial) and 3 (full) of a factored tensor, kappa = 3
C1_Witness ==
    /\ fstate.count = 4
    /\ cfg.kappa = 3
    /\ path = "full"
    /\ \E i \in 1..Len(chosen) : Factored(i)

\* the plain exponential moving average of one tensor, entry by entry
PlainEma(old, g) ==
    [k \in 1..Len(old.val) |->
        RAdd(RMul(Beta, old.val[k]), RMul(OneMinusBeta, g.val[k]))]

\* C3: with factorization disabled every decomposition is Naive, starts at
\* zero, follows data' = beta*data + (1-beta)*grad on every step, and the
\* emitted update is the buffer after absorbing the step's gradient.
C3_NaiveIsEma ==
    [][/\ (~cfg.factored /\ fstate.count < 0 /\ fstate'.count = 0) =>
            \A i \in 1..Len(params) :
                fstate'.decomposition[i] = NaiveDecomposition(Zeros(params[i]))
       /\ (~cfg.factored /\ Stepped) =>
            \A i \in 1..Len(params) :
                /\ fstate'.decomposition[i].kind = "naive"
                /\ fstate'.decomposition[i].data.shape = params[i]
                /\ fstate'.decomposition[i].data.val =
                       PlainEma(fstate.decomposition[i].data, grads'[i])
                /\ updates'[i] = fstate'.decomposition[i].data]_vars

\* three updates of an unfactored 2-D tensor, on refresh and other steps
C3_Witness ==
    /\ ~cfg.factored
    /\ cfg.kappa = 2
    /\ fstate.count = 3
    /\ params = << <<2, 3>> >>
    /\ updates[1].val[1] # RInt(0)
    /\ updates[1] = fstate.decomposition[1].data

\* C6: in every state reachable from init, query returns for every leaf a
\* tensor of the parameter's shape, and no update raised on misfitting shapes.
C6_QueryShape ==
    fstate # NoState =>
        /\ fout = "ok"
        /\ \A i \in 1..Len(params) :
              query(cfg, GradTree(params, 0), fstate)[i].shape = params[i]

\* a non-square tensor factored on both sides, seed-only, after a refresh
\* and a partial step
C6_Witness ==
    /\ cfg.side = "both"
    /\ cfg.rng_only
    /\ cfg.kappa = 2
    /\ fstate.count = 2
    /\ params = << <<2, 3>> >>
    /\ Factored(1)
    /\ query(cfg, grads, fstate)[1].shape = <<2, 3>>
    /\ query(cfg, grads, fstate)[1] # Zeros(<<2, 3>>)

\* C7: update_fn emits beta * query(state before) + (1-beta) * grad per
\* tensor and returns update_state(grads, state before) as the new state.
C7_QueryBeforeUpdate ==
    [][Stepped =>
         /\ \A i \in 1..Len(params) :
               updates'[i] =
                   TAdd(TScale(Beta, query(cfg, grads', fstate)[i]),
                        TScale(OneMinusBeta, grads'[i]))
         /\ fstate' = update_state(cfg, grads', fstate)]_vars

\* a factored tensor whose emitted update differs from the blend the
\* post-update state would give
C7_Witness ==
    /\ fstate.count >= 2
    /\ Factored(1)
    /\ updates[1] # TAdd(TScale(Beta, query(cfg, grads, fstate)[1]),
                         TScale(OneMinusBeta, grads[1]))

KnownSides == {"left", "right", "auto"}

\* C8 as stated: a side other than left/right/auto ends init (or update) in
\* an error and never yields an initialized or advanced state.
C8_InvalidSideIsError ==
    cfg.side \notin KnownSides => (fstate = NoState /\ fout # "ok")

\* C8 amended: a side other than left/right/auto is accepted; init and every
\* update succeed and each factorized tensor is factored on both sides.
C8_OtherSideIsBoth ==
    (cfg.side \notin KnownSides /\ fstate # NoState) =>
        /\ fout = "ok"
        /\ \A i \in 1..Len(params) :
              ShouldFactorize(cfg, params[i]) =>
                  /\ Tags(fstate)[i] = [kind |-> "factored", l |-> TRUE, r |-> TRUE]
                  /\ query(cfg, GradTree(params, 0), fstate)[i].shape = params[i]

C8_Witness ==
    /\ cfg.side = "both"
    /\ fstate.count = 2
    /\ fout = "ok"
    /\ Factored(1)

\* C9: every leaf keeps the variant and the populated sides init chose; a
\* Factored leaf has a side populated, and under side = "auto" exactly one:
\* right when shape[1] > shape[0], left otherwise.
C9_VariantFixed ==
    fstate # NoState =>
        /\ Tags(fstate) = chosen
        /\ \A i \in 1..Len(params) :
              LET t == Tags(fstate)[i]
              IN  /\ (t.kind = "factored") = ShouldFactorize(cfg, params[i])
                  /\ t.kind = "factored" => (t.l \/ t.r)
                  /\ (t.kind = "factored" /\ cfg.side = "auto") =>
                        /\ t.r = (params[i][2] > params[i][1])
                        /\ t.l = ~(params[i][2] > params[i][1])

\* a square and so left-factored tensor under "auto" after full and partial steps
C9_Witness ==
    /\ cfg.side = "auto"
    /\ cfg.kappa = 2
    /\ fstate.count = 4
    /\ params = << <<2, 2>> >>
    /\ chosen[1] = [kind |-> "factored", l |-> TRUE, r |-> FALSE]

\* the key that generated a stored projection
GenKey(c, proj) == IF c.rng_only THEN proj ELSE proj.key

\* C10: on every full-refresh step, step 0 included, each factored tensor's
\* new projection comes from a key other than the one that generated its
\* current projection.
C10_RefreshUsesFreshKey ==
    [][(Stepped /\ fstate.count % cfg.kappa = 0) =>
         \A i \in 1..Len(params) :
            Factored(i) =>
               /\ chosen[i].l =>
                     GenKey(cfg, Get(fstate'.decomposition[i].l_proj))
                        # GenKey(cfg, Get(fstate.decomposition[i].l_proj))
               /\ chosen[i].r =>
                     GenKey(cfg, Get(fstate'.decomposition[i].r_proj))
                        # GenKey(cfg, Get(fstate.decomposition[i].r_proj))]_vars

----------------------------------------------------------------------------
(* The chain assemblers flora(...) and adafactor(...).  The stages other   *)
(* than scale_by_flora are library transforms; the state of a stage is its *)
(* name and the number of updates it has absorbed.                         *)

Opt(b, name) == IF b THEN <<name>> ELSE <<>>

\* tx of flora(...)
FloraTx(a) ==
    <<"scale_by_flora", "scale_by_factored_rms">>
        \o Opt(a.clip, "clip_by_block_rms")
        \o <<"scale_by_learning_rate">>
        \o Opt(a.pscale, "scale_by_param_block_rms")
        \o Opt(a.wd, "add_decayed_weights")
        \o <<"scale">>

\* tx of adafactor(...)
AdafactorTx(a) ==
    Opt(a.momentum, "ema")
        \o (IF a.sign THEN <<"scale_by_sign">> ELSE <<"scale_by_factored_rms">>)
        \o Opt(a.clip, "clip_by_block_rms")
        \o Opt(a.lr, "scale_by_learning_rate")
        \o Opt(a.pscale, "scale_by_param_block_rms")
        \o Opt(a.wd, "add_decayed_weights")
        \o <<"scale">>

Tx(a) == IF a.kind = "flora" THEN FloraTx(a) ELSE AdafactorTx(a)

\* t.init(params) and t.update(...) of one stage
StageInit(name) == [stage |-> name, n |-> 0]
StageUpdate(s) == [stage |-> s.stage, n |-> s.n + 1]

\* init_fn of both assemblers: tuple(fn(params) for fn in init_fns)
chain_init_fn(a) == [i \in 1..Len(Tx(a)) |-> StageInit(Tx(a)[i])]

\* the guard refusing only a state that is too short
StateLengthDiffers_OnlyShorter(update_fns, state) == Len(update_fns) > Len(state)

\* the guard `len(update_fns) != len(state)`
StateLengthDiffers(update_fns, state) == Len(update_fns) # Len(state)

\* for s, fn in zip(state[k:], update_fns[k:]): new_state.append(...)
ZipTail(state, update_fns, k) ==
    LET m == Min2(Len(state), Len(update_fns))
    IN  [i \in 1..(IF m > k THEN m - k ELSE 0) |-> StageUpdate(state[k + i])]

ValueError == [out |-> "ValueError", new_state |-> <<>>, ran |-> 0]

Returned(new_state) == [out |-> "ok", new_state |-> new_state, ran |-> Len(new_state)]

flora_update_fn(a, state) ==
    IF StateLengthDiffers(FloraTx(a), state) THEN ValueError
    ELSE Returned(<<StageUpdate(state[1]), StageUpdate(state[2])>>
                      \o ZipTail(state, FloraTx(a), 2))

adafactor_update_fn(a, state) ==
    IF StateLengthDiffers(AdafactorTx(a), state) THEN ValueError
    ELSE IF a.momentum
         THEN Returned(<<StageUpdate(state[1]), StageUpdate(state[2])>>
                           \o ZipTail(state, AdafactorTx(a), 2))
         ELSE Returned(<<StageUpdate(state[1])>> \o ZipTail(state, AdafactorTx(a), 1))

chain_update_fn(a, state) ==
    IF a.kind = "flora" THEN flora_update_fn(a, state) ELSE adafactor_update_fn(a, state)

Assemblies ==
    {a \in [kind : {"flora", "adafactor"}, momentum : BOOLEAN, sign : BOOLEAN,
            clip : BOOLEAN, lr : BOOLEAN, pscale : BOOLEAN, wd : BOOLEAN] :
        a.kind = "flora" => (~a.momentum /\ ~a.sign /\ a.lr)}

\* the state tuples a caller may hand to update: the one it holds, a prefix
\* of it, or the one it holds with a stray element appended
PassedStates(held) ==
    {SubSeq(held, 1, k) : k \in 0..Len(held)} \cup {Append(held, StageInit("stray"))}

ChainInitFn ==
    /\ cstate = <<>>
    /\ cstate' = chain_init_fn(asm)
    /\ cout' = "init"
    /\ cpassed' = <<>>
    /\ ran' = 0
    /\ UNCHANGED asm

ChainUpdateFn ==
    /\ cstate # <<>> => cstate[1].n < MaxCalls
    /\ \E st \in PassedStates(cstate) :
        LET r == chain_update_fn(asm, st)
        IN  /\ cpassed' = st
            /\ cout' = r.out
            /\ ran' = r.ran
            /\ cstate' = IF r.out = "ok" THEN r.new_state ELSE cstate
    /\ UNCHANGED asm

FloraIdle ==
    /\ cfg = <<>> /\ params = <<>> /\ fstate = NoState /\ updates = <<>>
    /\ grads = <<>> /\ path = "none" /\ chosen = <<>> /\ fout = "none"

ChainInit == asm \in Assemblies /\ cstate = <<>> /\ cpassed = <<>> /\ cout = "none" /\ ran = 0

InitChain == FloraIdle /\ ChainInit /\ LoaderIdle /\ PolicyIdle

NextChain ==
    \/ ChainInitFn /\ UNCHANGED <<floraVars, loaderVars, policyVars>>
    \/ ChainUpdateFn /\ UNCHANGED <<floraVars, loaderVars, policyVars>>

SpecChain == InitChain /\ [][NextChain]_vars

Bit(b) == IF b THEN 1 ELSE 0

\* the number T of transforms the assembler's options select
NumTransforms(a) ==
    IF a.kind = "flora"
    THEN 4 + Bit(a.clip) + Bit(a.pscale) + Bit(a.wd)
    ELSE 2 + Bit(a.momentum) + Bit(a.clip) + Bit(a.lr) + Bit(a.pscale) + Bit(a.wd)

\* C2: init returns a tuple of length T; update with a tuple of another
\* length ends in ValueError before any stage runs; a successful update
\* ran every stage once and returns a tuple of length T.
C2_ChainArity ==
    /\ cout = "init" => Len(cstate) = NumTransforms(asm)
    /\ cout \in {"ok", "ValueError"} =>
          ((cout = "ValueError") = (Len(cpassed) # NumTransforms(asm)))
    /\ cout = "ValueError" => ran = 0
    /\ cout = "ok" => (Len(cstate) = NumTransforms(asm) /\ ran = NumTransforms(asm))
    /\ cstate # <<>> => Len(cstate) = NumTransforms(asm)

\* a full flora chain (T = 7): one good update, then a short tuple refused
C2_Witness ==
    /\ asm.kind = "flora"
    /\ NumTransforms(asm) = 7
    /\ cout = "ValueError"
    /\ Len(cpassed) = 6
    /\ cstate[1].n = 1
    /\ Len(cstate) = 7

----------------------------------------------------------------------------
(* data_loader: a generator.  The dataset is its indices 0..n-1; a batch   *)
(* is the list of indices it holds.                                        *)

\* np.arange(n)
Arange(n) == [i \in 1..n |-> i - 1]

\* jax.random.permutation(rng, n): a permutation of 0..n-1 fixed by the key
\* (here the rotation by rng + 1)
Permutation(rng, n) == [i \in 1..n |-> (i + rng) % n]

\* math.ceil(n / b)
CeilDiv(n, b) == (n + b - 1) \div b

\* batch_idx[:k].reshape((steps, b)): the rows
Reshape(idx, steps, b) ==
    [r \in 1..steps |-> [j \in 1..b |-> idx[(r - 1) * b + j]]]

\* np.array_split(ary, k): k sections, the first len % k of size
\* len // k + 1 and the rest of size len // k
ArraySplit(ary, k) ==
    LET each   == Len(ary) \div k
        extras == Len(ary) % k
    IN  [r \in 1..k |->
            LET start == (r - 1) * each + Min2(r - 1, extras)
                size  == each + (IF r <= extras THEN 1 ELSE 0)
            IN  [j \in 1..size |-> ary[start + j]]]

\* the body of data_loader up to its loop: the list of index batches, or
\* "raised" (np.array_split refuses 0 sections)
BatchIdx(a) ==
    LET idx == IF a.shuffle THEN Permutation(a.rng, a.n) ELSE Arange(a.n)
    IN  IF a.drop_last
        THEN [raised |-> FALSE,
              batches |-> Reshape(idx, a.n \div a.batch_size, a.batch_size)]
        ELSE IF CeilDiv(a.n, a.batch_size) <= 0
             THEN [raised |-> TRUE, batches |-> <<>>]
             ELSE [raised |-> FALSE,
                   batches |-> ArraySplit(idx, CeilDiv(a.n, a.batch_size))]

LoaderArgs ==
    {a \in [n : 0..MaxN, batch_size : 1..MaxB, shuffle : BOOLEAN,
            drop_last : BOOLEAN, rng : {0, 1}] : ~a.shuffle => a.rng = 0}

\* next(generator): run the body to its next yield, its end or its raise
DataLoaderNext ==
    /\ lpc \in {"created", "suspended"}
    /\ LET b    == IF lpc = "created" THEN BatchIdx(ld)
                   ELSE [raised |-> FALSE, batches |-> batch_idx]
       IN  IF b.raised
           THEN lpc' = "raised" /\ UNCHANGED <<batch_idx, yielded>>
           ELSE IF b.batches = <<>>
           THEN lpc' = "done" /\ batch_idx' = <<>> /\ UNCHANGED yielded
           ELSE /\ lpc' = "suspended"
                /\ yielded' = Append(yielded, Head(b.batches))
                /\ batch_idx' = Tail(b.batches)
    /\ UNCHANGED ld

LoaderInit == ld \in LoaderArgs /\ lpc = "created" /\ batch_idx = <<>> /\ yielded = <<>>

InitLoader == FloraIdle /\ ChainIdle /\ LoaderInit /\ PolicyIdle

NextLoader == DataLoaderNext /\ UNCHANGED <<floraVars, chainVars, policyVars>>

SpecLoader == InitLoader /\ [][NextLoader]_vars

\* C4: with drop_last = False the loader yields ceil(n/b) batches, every
\* one but the last of exactly b elements and the last holding the
\* remainder; n = 10, b = 3 gives sizes 3, 3, 3, 1.
C4_LastBatchHoldsRemainder ==
    (lpc = "done" /\ ~ld.drop_last) =>
        /\ Len(yielded) = CeilDiv(ld.n, ld.batch_size)
        /\ \A i \in 1..(Len(yielded) - 1) : Len(yielded[i]) = ld.batch_size
        /\ Len(yielded[Len(yielded)]) = ld.n - (Len(yielded) - 1) * ld.batch_size
        /\ (ld.n = 10 /\ ld.batch_size = 3) =>
              [i \in 1..Len(yielded) |-> Len(yielded[i])] = <<3, 3, 3, 1>>

----------------------------------------------------------------------------
(* should_factorize as a function of its inputs *)

PolicyDims == {1, 8, 16, 127, 128, 129, 2032, 2048, 2049}
PolicyMinDims == {1, 16, 128, 129}
PolicyShapes ==
    {<<a>> : a \in PolicyDims}
        \cup {<<a, b>> : a \in PolicyDims, b \in PolicyDims}
        \cup {<<128, 128, 128>>, <<1, 128, 128>>}

ShouldFactorizeCall ==
    /\ presult = None
    /\ presult' = Some(should_factorize(pcfg.factored, pcfg.min_dim_size_to_factor, pshape))
    /\ UNCHANGED <<pshape, pcfg>>

PolicyInit ==
    /\ pshape \in PolicyShapes
    /\ pcfg \in [factored : BOOLEAN, min_dim_size_to_factor : PolicyMinDims]
    /\ presult = None

InitPolicy == FloraIdle /\ ChainIdle /\ LoaderIdle /\ PolicyInit

NextPolicy == ShouldFactorizeCall /\ UNCHANGED <<floraVars, chainVars, loaderVars>>

SpecPolicy == InitPolicy /\ [][NextPolicy]_vars

\* min_dim_size_to_factor's default
DefaultMinDim == 128

\* C5: should_factorize is true exactly when factorization is enabled, the
\* tensor has rank 2, max(shape)/min(shape) <= 16 and min(shape) >= 
\* min_dim_size_to_factor; (128,128) is factorized and (127,127) is not under
\* the default, ratio exactly 16 is factorized, (2048,16) never is.
C5_PolicyBoundary ==
    presult # None =>
        /\ Get(presult) =
              (/\ pcfg.factored
               /\ Len(pshape) = 2
               /\ pshape[1] <= 16 * pshape[2]
               /\ pshape[2] <= 16 * pshape[1]
               /\ pshape[1] >= pcfg.min_dim_size_to_factor
               /\ pshape[2] >= pcfg.min_dim_size_to_factor)
        /\ (pcfg.factored /\ pcfg.min_dim_size_to_factor = DefaultMinDim) =>
              /\ pshape = <<128, 128>> => Get(presult)
              /\ pshape = <<127, 127>> => ~Get(presult)
              /\ pshape \in {<<2048, 128>>, <<128, 2048>>} => Get(presult)
        /\ pshape = <<2048, 16>> => ~Get(presult)

\* aspect ratio exactly 16 with the smaller dimension at the default minimum
C5_Witness ==
    /\ presult = Some(TRUE)
    /\ pshape = <<2048, 128>>
    /\ pcfg.min_dim_size_to_factor = DefaultMinDim

====
